---- MODULE Spec2Model ----
(***************************************************************************)
(* Model of the summarizer-api document pipeline:                          *)
(*   - the admission controller  POST /documents/      (app/api.py)        *)
(*   - the repository operations on the documents table (app/crud.py)      *)
(*   - the job dispatcher and the pipeline executor     (app/tasks.py)     *)
(*   - the progress mirror                     (app/redis_progress.py)     *)
(*   - the summary trimming                     (app/ollama_client.py)     *)
(*   - on their own: the url validation and the fetch retries             *)
(*     (app/extraction.py), the request retries of the summarization      *)
(*     client (app/ollama_client.py), the cancel of a Run (app/tasks.py)  *)
(*                                                                         *)
(* Every await on the store and every Redis command of the worker is one   *)
(* step: requests interleave with each other at their awaits, and with     *)
(* the workers, which are separate processes.  The dispatcher has no await *)
(* and runs inside the request's event loop, so it is one step.            *)
(*                                                                         *)
(* Conventions: a nullable value is a sequence of length 0 (null) or 1;    *)
(* identifiers are positive integers and 0 stands for "none"; progress is  *)
(* in hundredths (0.2 is 20); a text is a run-length encoded string, a     *)
(* sequence of runs [ch, n] with n > 0 and no two adjacent runs of the     *)
(* same character, so equal strings have equal encodings.                  *)
(* The one-hour expiry of the Redis keys is not modelled.                  *)
(***************************************************************************)
EXTENDS Integers, Sequences, FiniteSets, TLC

\* ---------------------------------------------------------------- bounds
\* Total number of admission calls over a behaviour.
MaxCalls == 3
\* Number of requests the API serves concurrently.
NumRequests == 2
\* Number of RQ worker processes.
NumWorkers == 2
\* Number of admission calls in the behaviours where Redis can fail.
FaultCalls == 2

Names == {"n1", "n2"}
Urls == {"u1", "u2"}
Requests == 1..NumRequests
DocIds == 1..Cardinality(Names)

\* ------------------------------------------------------------- constants
SUMMARY_MAX_CHARS == 1500
MIN_CONTENT_LENGTH == 50
MIN_PARSED_LENGTH == 10

None == <<>>
Some(x) == <<x>>

PENDING == "PENDING"
FETCHING == "FETCHING"
PARSING == "PARSING"
SUMMARIZING == "SUMMARIZING"
SUCCESS == "SUCCESS"
FAILED == "FAILED"

DocumentStatus == {PENDING, FETCHING, PARSING, SUMMARIZING, SUCCESS, FAILED}

DOCUMENT_STAGE_PROGRESS ==
    [s \in DocumentStatus |->
        CASE s = PENDING -> 0
          [] s = FETCHING -> 20
          [] s = PARSING -> 40
          [] s = SUMMARIZING -> 90
          [] s = SUCCESS -> 100
          [] s = FAILED -> 0]

\* ------------------------------------------------------------------ text
RECURSIVE TextLen(_)
TextLen(t) == IF t = <<>> THEN 0 ELSE Head(t).n + TextLen(Tail(t))

\* text[:k] for k >= 0
RECURSIVE Prefix(_, _)
Prefix(t, k) ==
    IF k <= 0 \/ t = <<>> THEN <<>>
    ELSE IF Head(t).n >= k THEN <<[ch |-> Head(t).ch, n |-> k]>>
    ELSE <<Head(t)>> \o Prefix(Tail(t), k - Head(t).n)

\* text.rfind(c): the 0-based index of the last c, or -1
RECURSIVE RFindFrom(_, _, _)
RFindFrom(t, c, base) ==
    IF t = <<>> THEN -1
    ELSE LET rest == RFindFrom(Tail(t), c, base + Head(t).n)
         IN  IF rest >= 0 THEN rest
             ELSE IF Head(t).ch = c THEN base + Head(t).n - 1
             ELSE -1

RFind(t, c) == RFindFrom(t, c, 0)

Max2(a, b) == IF a > b THEN a ELSE b

\* a trim that looks for a blank before it looks for a sentence ending
trim_at_last_space(text, max_length) ==
    IF TextLen(text) <= max_length THEN text
    ELSE LET truncated == Prefix(text, max_length)
             last_sentence_end ==
                 Max2(Max2(RFind(truncated, "."), RFind(truncated, "!")),
                      RFind(truncated, "?"))
             last_space == RFind(truncated, " ")
         IN  IF last_space > 0 THEN Prefix(truncated, last_space)
             ELSE IF last_sentence_end > 0
             THEN Prefix(truncated, last_sentence_end + 1)
             ELSE truncated

\* a trim at the last sentence ending of the whole text
trim_at_last_sentence_end(text, max_length) ==
    IF TextLen(text) <= max_length THEN text
    ELSE Prefix(text, Max2(RFind(text, "."), 0) + 1)

trim_to_sentence_boundary(text, max_length) ==
    IF TextLen(text) <= max_length THEN text
    ELSE LET truncated == Prefix(text, max_length)
             last_sentence_end ==
                 Max2(Max2(RFind(truncated, "."), RFind(truncated, "!")),
                      RFind(truncated, "?"))
             last_space == RFind(truncated, " ")
         IN  IF last_sentence_end > 0 THEN Prefix(truncated, last_sentence_end + 1)
             ELSE IF last_space > 0 THEN Prefix(truncated, last_space)
             ELSE truncated

\* text.strip() and re.sub(r"\s+", " ", text), the blank being the only
\* whitespace of the alphabet
StripLeft(t) == IF t # <<>> /\ Head(t).ch = " " THEN Tail(t) ELSE t
StripRight(t) ==
    IF t # <<>> /\ t[Len(t)].ch = " " THEN SubSeq(t, 1, Len(t) - 1) ELSE t
Strip(t) == StripRight(StripLeft(t))

normalize_whitespace(t) ==
    Strip([i \in 1..Len(t) |->
              IF t[i].ch = " " THEN [ch |-> " ", n |-> 1] ELSE t[i]])

clean_content(content) ==
    IF content = <<>> THEN <<>> ELSE normalize_whitespace(content)

\* ----------------------------------------------------------------- state
VARIABLES
    docs,           \* the documents table: a sequence of rows, the id is the index
    requests,       \* the POST /documents/ calls being served, per request slot
    calls,          \* number of admission calls made so far
    jobs,           \* the RQ jobs: a sequence, the job id is the index
    queue,          \* the RQ queue: job ids, first in first out
    tasks,          \* Redis task:{task_id}: the Run records, the task id is the index
    job_key,        \* Redis job:{task_id}: the job id stored for a task id
    doc_job,        \* Redis doc_job:{document_id}: the dispatch lock, 0 when absent
    doc_progress,   \* Redis doc_progress:{document_id}: the progress mirror
    unit            \* one call of a component taken on its own, see the last part

vars == <<docs, requests, calls, jobs, queue, tasks, job_key, doc_job, doc_progress,
          unit>>
store_vars == <<docs, jobs, queue, tasks, job_key, doc_job, doc_progress>>
redis_vars == <<jobs, queue, tasks, job_key, doc_job, doc_progress>>
rq_vars == <<jobs, queue, tasks, job_key, doc_job>>

\* A row of the documents table as models.Document declares it. Time is
\* logical: a row is stamped with its rank in the order of the inserts.
Document(name, url, status, now) ==
    [name |-> name, url |-> url, status |-> status, summary |-> None,
     data_progress |-> 0, last_error |-> None, created_at |-> now]

NoResponse ==
    [code |-> 0, document_uuid |-> 0, status |-> "", summary |-> None,
     data_progress |-> 0]

NoTaskId == [kind |-> "none", n |-> 0]

IdleRequest ==
    [pc |-> "idle", name |-> "", url |-> "", matched |-> FALSE,
     recovering |-> FALSE, document_id |-> 0, name_conflict |-> 0, url_conflict |-> 0,
     document |-> None, task_id |-> NoTaskId, response |-> NoResponse,
     rows |-> 0, dispatches |-> 0]

\* The response body built from the ORM object the request holds.
DocumentResponse(document) ==
    [code |-> 202, document_uuid |-> document.id, status |-> document.status,
     summary |-> document.summary, data_progress |-> document.data_progress]

HTTPException(status_code) == [NoResponse EXCEPT !.code = status_code]

\* No component is called on its own while the whole service runs.
NoUnit == [kind |-> "none"]

Init ==
    /\ docs = <<>>
    /\ requests = [r \in Requests |-> IdleRequest]
    /\ calls = 0
    /\ jobs = <<>>
    /\ queue = <<>>
    /\ tasks = <<>>
    /\ job_key = <<>>
    /\ doc_job = [d \in DocIds |-> 0]
    /\ doc_progress = [d \in DocIds |-> None]
    /\ unit = NoUnit

\* ------------------------------------------------------------ repository
\* select(Document).where(name == name, url == url): the id of the row, or 0
get_document_by_name_and_url(name, url) ==
    IF \E d \in 1..Len(docs) : docs[d].name = name /\ docs[d].url = url
    THEN CHOOSE d \in 1..Len(docs) : docs[d].name = name /\ docs[d].url = url
    ELSE 0

\* A name lookup that finds nothing.
get_document_by_name_blind(name) == 0

\* select(Document).where(name == name): the id of the row, or 0
get_document_by_name(name) ==
    IF \E d \in 1..Len(docs) : docs[d].name = name
    THEN CHOOSE d \in 1..Len(docs) : docs[d].name = name
    ELSE 0

\* A url lookup that finds nothing.
get_document_by_url_blind(url) == 0

\* select(Document).where(url == url): the id of the row, or 0
get_document_by_url(url) ==
    IF \E d \in 1..Len(docs) : docs[d].url = url
    THEN CHOOSE d \in 1..Len(docs) : docs[d].url = url
    ELSE 0

\* A table without the unique constraints.
UniqueViolationUnchecked(name, url) == FALSE

\* The unique constraints on documents.name and documents.url.
UniqueViolation(name, url) ==
    \E d \in 1..Len(docs) : docs[d].name = name \/ docs[d].url = url

\* A reset that keeps the error of the last run.
ResetValuesKeepError(row) ==
    [row EXCEPT !.status = PENDING, !.summary = None, !.data_progress = 0]

\* The values reset_document_for_resummary writes to a row.
ResetValues(row) ==
    [row EXCEPT !.status = PENDING, !.summary = None, !.last_error = None,
                !.data_progress = 0]

\* The ORM object a request holds after db.refresh(document).
Refreshed(d) ==
    [id |-> d, status |-> docs[d].status, summary |-> docs[d].summary,
     data_progress |-> docs[d].data_progress]

\* ------------------------------------------------------------ dispatcher
\* A status check that forgets the started jobs.
JobIsActiveQueuedOnly(status) == status = "queued"

\* existing_job.get_status() in ["queued", "started"]
JobIsActive(status) == status \in {"queued", "started"}

\* The idempotency check of create_document_summarization_task.
SkipDuplicate(document_id) ==
    /\ doc_job[document_id] # 0
    /\ JobIsActive(jobs[doc_job[document_id]].status)

NewJob(document_id) ==
    [document_id |-> document_id, status |-> "queued", pc |-> "queued",
     stage |-> PENDING, content |-> None, summary |-> None, error |-> None,
     raised |-> FALSE, outcome |-> "NONE",
     \* the status values the run of the job has written to the row, in order
     written |-> <<>>]

NewTask(document_id) ==
    [type |-> "document_summarize", document_id |-> document_id,
     status |-> "pending", progress |-> 0]

\* create_document_summarization_task(document_id), returning task_id
create_document_summarization_task(document_id, task_id) ==
    IF SkipDuplicate(document_id)
    THEN /\ task_id = [kind |-> "job", n |-> doc_job[document_id]]
         /\ UNCHANGED rq_vars
    ELSE /\ task_id = [kind |-> "task", n |-> Len(tasks) + 1]
         /\ tasks' = Append(tasks, NewTask(document_id))
         /\ jobs' = Append(jobs, NewJob(document_id))
         /\ queue' = Append(queue, Len(jobs) + 1)
         /\ job_key' = Append(job_key, Len(jobs) + 1)
         /\ doc_job' = [doc_job EXCEPT ![document_id] = Len(jobs) + 1]

\* ------------------------------------------------- admission controller
\* A response is delivered before anything else happens: the delivery changes
\* nothing but the request's own record, so taking it first loses no behaviour.
Delivering == \E r \in Requests : requests[r].pc = "done"

\* A client sends POST /documents/ {name, url}.
create_document(r, name, url) ==
    /\ ~Delivering
    /\ requests[r].pc = "idle"
    /\ calls < MaxCalls
    \* request slots are interchangeable: a call takes the first free one
    /\ \A q \in 1..(r - 1) : requests[q].pc \notin {"idle", "done"}
    \* names and urls are interchangeable: the first call takes the first pair
    /\ calls = 0 => (name = "n1" /\ url = "u1")
    /\ calls' = calls + 1
    /\ requests' = [requests EXCEPT ![r] =
           [IdleRequest EXCEPT !.pc = "exact", !.name = name, !.url = url]]
    /\ UNCHANGED <<store_vars, unit>>

\* An exact-match lookup after which the row is returned as it is, not reset.
lookup_exact_match_no_reset(r) ==
    LET q == requests[r]
        exact_match == get_document_by_name_and_url(q.name, q.url)
    IN  /\ ~Delivering
        /\ q.pc = "exact"
        /\ requests' = [requests EXCEPT ![r] =
               IF exact_match # 0
               THEN [q EXCEPT !.pc = "refresh", !.document_id = exact_match,
                              !.matched = TRUE]
               ELSE [q EXCEPT !.pc = "conflict_name"]]
        /\ UNCHANGED <<calls, unit, store_vars>>

\* api.py 129 and 215: the exact-match lookup.
lookup_exact_match(r) ==
    LET q == requests[r]
        exact_match == get_document_by_name_and_url(q.name, q.url)
    IN  /\ ~Delivering
        /\ q.pc = "exact"
        /\ requests' = [requests EXCEPT ![r] =
               IF exact_match # 0
               THEN [q EXCEPT !.pc = "reset", !.document_id = exact_match,
                              !.matched = TRUE]
               ELSE [q EXCEPT !.pc = "conflict_name"]]
        /\ UNCHANGED <<calls, unit, store_vars>>

\* crud.py 86-101: the UPDATE ... RETURNING and its commit.
reset_document_for_resummary(r) ==
    LET q == requests[r]
    IN  /\ ~Delivering
        /\ q.pc = "reset"
        /\ docs' = [docs EXCEPT ![q.document_id] = ResetValues(@)]
        /\ requests' = [requests EXCEPT ![r] =
               [q EXCEPT !.pc = "refresh", !.rows = @ + 1]]
        /\ UNCHANGED <<calls, unit, redis_vars>>

\* crud.py 29 and 102: db.refresh(document).
refresh_document(r) ==
    LET q == requests[r]
    IN  /\ ~Delivering
        /\ q.pc = "refresh"
        /\ requests' = [requests EXCEPT ![r] =
               [q EXCEPT !.pc = "dispatch",
                         !.document = Some(Refreshed(q.document_id))]]
        /\ UNCHANGED <<calls, unit, store_vars>>

\* api.py 147, 226, 284: the dispatch, then the 202 response.
enqueue_and_respond(r) ==
    LET q == requests[r]
        document == q.document[1]
    IN  /\ ~Delivering
        /\ q.pc = "dispatch"
        /\ \E task_id \in {[kind |-> "job", n |-> doc_job[document.id]],
                           [kind |-> "task", n |-> Len(tasks) + 1]} :
              /\ create_document_summarization_task(document.id, task_id)
              /\ requests' = [requests EXCEPT ![r] =
                     [q EXCEPT !.pc = "done", !.task_id = task_id,
                               !.dispatches = @ + 1,
                               !.response = DocumentResponse(document)]]
        /\ UNCHANGED <<calls, unit, docs, doc_progress>>

\* crud.py 70-71: the name lookup of find_conflicting_documents.
find_name_conflict(r) ==
    LET q == requests[r]
    IN  /\ ~Delivering
        /\ q.pc = "conflict_name"
        /\ requests' = [requests EXCEPT ![r] =
               [q EXCEPT !.pc = "conflict_url",
                         !.name_conflict = get_document_by_name(q.name)]]
        /\ UNCHANGED <<calls, unit, store_vars>>

\* crud.py 74-75: the url lookup, then api.py 169-194 and 250-277.
find_url_conflict(r) ==
    LET q == requests[r]
        url_conflict == get_document_by_url(q.url)
    IN  /\ ~Delivering
        /\ q.pc = "conflict_url"
        /\ requests' = [requests EXCEPT ![r] =
               IF q.name_conflict # 0 \/ url_conflict # 0
               THEN [q EXCEPT !.pc = "done", !.url_conflict = url_conflict,
                              !.response = HTTPException(409)]
               ELSE IF q.recovering
               THEN [q EXCEPT !.pc = "done", !.response = HTTPException(500)]
               ELSE [q EXCEPT !.pc = "create"]]
        /\ UNCHANGED <<calls, unit, store_vars>>

\* crud.py 21-28: the INSERT and its commit; api.py 207-209 on IntegrityError.
insert_document(r) ==
    LET q == requests[r]
    IN  /\ ~Delivering
        /\ q.pc = "create"
        /\ IF UniqueViolation(q.name, q.url)
           THEN /\ requests' = [requests EXCEPT ![r] =
                       [q EXCEPT !.pc = "exact", !.recovering = TRUE]]
                /\ UNCHANGED docs
           ELSE /\ docs' = Append(docs, Document(q.name, q.url, PENDING, Len(docs) + 1))
                /\ requests' = [requests EXCEPT ![r] =
                       [q EXCEPT !.pc = "refresh", !.document_id = Len(docs) + 1,
                                 !.rows = @ + 1]]
        /\ UNCHANGED <<calls, unit, redis_vars>>

\* The response leaves the server and the request is over.
deliver_response(r) ==
    /\ requests[r].pc = "done"
    /\ requests' = [requests EXCEPT ![r] = IdleRequest]
    /\ UNCHANGED <<calls, unit, store_vars>>

Admission ==
    \/ \E r \in Requests, name \in Names, url \in Urls : create_document(r, name, url)
    \/ \E r \in Requests : lookup_exact_match(r)
    \/ \E r \in Requests : reset_document_for_resummary(r)
    \/ \E r \in Requests : refresh_document(r)
    \/ \E r \in Requests : enqueue_and_respond(r)
    \/ \E r \in Requests : find_name_conflict(r)
    \/ \E r \in Requests : find_url_conflict(r)
    \/ \E r \in Requests : insert_document(r)

\* ------------------------------------------------- external collaborators
\* What the page fetch and the primary/fallback extraction can come back with:
\* a text too short to be useful, or a text with blanks to normalize.
FetchResults ==
    { [error |-> None, text |-> <<[ch |-> "a", n |-> 5]>>],
      [error |-> None,
       text |-> <<[ch |-> " ", n |-> 2], [ch |-> "a", n |-> 60],
                  [ch |-> " ", n |-> 3], [ch |-> "a", n |-> 5],
                  [ch |-> " ", n |-> 1]>>] }

\* What the text-generation service can come back with: an error, or a
\* 2000-character answer whose last sentence ends at offset 1400.
OllamaResults ==
    { [error |-> Some("Failed to generate text"), text |-> None],
      [error |-> None,
       text |-> <<[ch |-> "a", n |-> 1400], [ch |-> ".", n |-> 1],
                  [ch |-> "a", n |-> 599]>>] }

Raise(message) == [error |-> Some(message), value |-> None]
Return(value) == [error |-> None, value |-> Some(value)]

\* ContentExtractor.extract_content_from_url, given what the network returned
extract_content_from_url(result) ==
    IF result.error # None THEN Raise(result.error[1])
    ELSE LET extracted_text == normalize_whitespace(result.text)
         IN  IF extracted_text = <<>>
                \/ TextLen(Strip(extracted_text)) < MIN_CONTENT_LENGTH
             THEN Raise("Extracted content too short or empty")
             ELSE Return(extracted_text)

\* tasks.py 425-432: clean the extracted content and reject an empty result
parse_content(extracted_content) ==
    LET parsed_content == clean_content(extracted_content)
    IN  IF parsed_content = <<>>
           \/ TextLen(Strip(parsed_content)) < MIN_PARSED_LENGTH
        THEN Raise("Parsed content is empty or too short")
        ELSE Return(parsed_content)

\* OllamaClient.summarize, given what the service returned
summarize(result) ==
    IF result.error # None
    THEN Raise("Failed to summarize text")
    ELSE Return(trim_to_sentence_boundary(result.text, SUMMARY_MAX_CHARS))

\* tasks.py 456-466: the summary the executor keeps
enforce_limit(summary) ==
    IF TextLen(summary) > SUMMARY_MAX_CHARS
    THEN trim_to_sentence_boundary(summary, SUMMARY_MAX_CHARS)
    ELSE summary

\* update_document_progress_redis(document_id, stage, error_message)
ProgressData(stage, error_message) ==
    [stage |-> stage, progress |-> DOCUMENT_STAGE_PROGRESS[stage],
     error_message |-> error_message]

\* ------------------------------------------------------------- RQ worker
\* The worker's stage work touches nothing shared, and a mirror write touches
\* only the mirror: each is taken in the same step as the store write before it.
Jobs == 1..Len(jobs)

\* A worker process takes the job at the head of the queue.
worker_dequeue(j) ==
    /\ ~Delivering
    /\ queue # <<>>
    /\ j = Head(queue)
    /\ Cardinality({k \in Jobs : jobs[k].status = "started"}) < NumWorkers
    /\ queue' = Tail(queue)
    /\ jobs' = [jobs EXCEPT ![j].status = "started", ![j].pc = "entry"]
    /\ UNCHANGED <<docs, requests, calls, unit, tasks, job_key, doc_job, doc_progress>>

\* A guard that lets a FAILED resource through.
IsTerminalSuccessOnly(status) == status = SUCCESS

\* tasks.py 381: document.status in [DocumentStatus.SUCCESS, DocumentStatus.FAILED]
IsTerminal(status) == status \in {SUCCESS, FAILED}

\* tasks.py 374-385: read the document, the not-found error, the entry guard.
executor_entry(j) ==
    LET d == jobs[j].document_id
    IN  /\ ~Delivering
        /\ jobs[j].pc = "entry"
        /\ jobs' = [jobs EXCEPT ![j] =
               IF d \notin 1..Len(docs)
               THEN [@ EXCEPT !.pc = "worker_except", !.raised = TRUE,
                              !.error = Some("Document not found")]
               ELSE IF IsTerminal(docs[d].status)
               THEN [@ EXCEPT !.pc = "worker_return"]
               ELSE [@ EXCEPT !.pc = "status", !.stage = FETCHING]]
        /\ UNCHANGED <<docs, requests, calls, unit, queue, tasks, job_key, doc_job,
                       doc_progress>>

\* tasks.py 395, 418, 445: update_document_status(db, document_id, stage)
stage_status(j) ==
    LET d == jobs[j].document_id
    IN  /\ ~Delivering
        /\ jobs[j].pc = "status"
        /\ docs' = [docs EXCEPT ![d].status = jobs[j].stage]
        /\ jobs' = [jobs EXCEPT ![j].pc = "progress",
                                ![j].written = Append(@, jobs[j].stage)]
        /\ UNCHANGED <<requests, calls, unit, queue, tasks, job_key, doc_job, doc_progress>>

\* A run that goes from the fetch straight to the summary.
AfterWorkSkipsParsing(job, result) ==
    IF result.error # None
    THEN [job EXCEPT !.pc = "fail_error", !.error = result.error, !.content = None]
    ELSE IF job.stage = FETCHING
    THEN [job EXCEPT !.pc = "status", !.stage = SUMMARIZING, !.content = result.value]
    ELSE [job EXCEPT !.pc = "save_summary", !.content = None,
                     !.summary = Some(enforce_limit(result.value[1]))]

\* The outcome of a stage's work: the job goes on to the next stage's status
\* write, to the summary write, or to the failure path.
AfterWork(job, result) ==
    IF result.error # None
    THEN [job EXCEPT !.pc = "fail_error", !.error = result.error, !.content = None]
    ELSE IF job.stage = FETCHING
    THEN [job EXCEPT !.pc = "status", !.stage = PARSING, !.content = result.value]
    ELSE IF job.stage = PARSING
    THEN [job EXCEPT !.pc = "status", !.stage = SUMMARIZING, !.content = result.value]
    ELSE [job EXCEPT !.pc = "save_summary", !.content = None,
                     !.summary = Some(enforce_limit(result.value[1]))]

\* tasks.py 402-405, 425-432, 456-458: what the stage's work can come to.
WorkResults(job) ==
    IF job.stage = FETCHING
    THEN {extract_content_from_url(result) : result \in FetchResults}
    ELSE IF job.stage = PARSING
    THEN {parse_content(job.content[1])}
    ELSE {summarize(result) : result \in OllamaResults}

\* tasks.py 396-405, 419-432, 446-466: update_document_progress(db, id,
\* checkpoint), update_document_progress_redis(id, stage), the stage's work.
stage_progress(j) ==
    LET d == jobs[j].document_id
    IN  /\ ~Delivering
        /\ jobs[j].pc = "progress"
        /\ docs' = [docs EXCEPT ![d].data_progress =
                                   DOCUMENT_STAGE_PROGRESS[jobs[j].stage]]
        /\ doc_progress' = [doc_progress EXCEPT ![d] =
                                Some(ProgressData(jobs[j].stage, None))]
        /\ \E result \in WorkResults(jobs[j]) :
              jobs' = [jobs EXCEPT ![j] = AfterWork(@, result)]
        /\ UNCHANGED <<requests, calls, unit, queue, tasks, job_key, doc_job>>

\* tasks.py 477: update_document_summary(db, document_id, summary)
save_summary(j) ==
    LET d == jobs[j].document_id
    IN  /\ ~Delivering
        /\ jobs[j].pc = "save_summary"
        /\ docs' = [docs EXCEPT ![d].summary = jobs[j].summary]
        /\ jobs' = [jobs EXCEPT ![j].pc = "success_status"]
        /\ UNCHANGED <<requests, calls, unit, queue, tasks, job_key, doc_job, doc_progress>>

\* tasks.py 478: update_document_status(db, document_id, SUCCESS)
success_status(j) ==
    LET d == jobs[j].document_id
    IN  /\ ~Delivering
        /\ jobs[j].pc = "success_status"
        /\ docs' = [docs EXCEPT ![d].status = SUCCESS]
        /\ jobs' = [jobs EXCEPT ![j].pc = "success_progress", ![j].outcome = SUCCESS,
                                ![j].written = Append(@, SUCCESS)]
        /\ UNCHANGED <<requests, calls, unit, queue, tasks, job_key, doc_job, doc_progress>>

\* tasks.py 479-484: update_document_progress(db, document_id, 1.0) and
\* update_document_progress_redis(document_id, SUCCESS)
success_progress(j) ==
    LET d == jobs[j].document_id
    IN  /\ ~Delivering
        /\ jobs[j].pc = "success_progress"
        /\ docs' = [docs EXCEPT ![d].data_progress = 100]
        /\ doc_progress' = [doc_progress EXCEPT ![d] = Some(ProgressData(SUCCESS, None))]
        /\ jobs' = [jobs EXCEPT ![j].pc = "finally_unlock"]
        /\ UNCHANGED <<requests, calls, unit, queue, tasks, job_key, doc_job>>

\* tasks.py 497: update_document_error(db, document_id, error_msg)
fail_error(j) ==
    LET d == jobs[j].document_id
    IN  /\ ~Delivering
        /\ jobs[j].pc = "fail_error"
        /\ docs' = [docs EXCEPT ![d].last_error = jobs[j].error]
        /\ jobs' = [jobs EXCEPT ![j].pc = "fail_status"]
        /\ UNCHANGED <<requests, calls, unit, queue, tasks, job_key, doc_job, doc_progress>>

\* tasks.py 498-501: update_document_status(db, document_id, FAILED) and
\* update_document_progress_redis(document_id, FAILED, error_msg)
fail_status(j) ==
    LET d == jobs[j].document_id
    IN  /\ ~Delivering
        /\ jobs[j].pc = "fail_status"
        /\ docs' = [docs EXCEPT ![d].status = FAILED]
        /\ doc_progress' = [doc_progress EXCEPT ![d] =
                                Some(ProgressData(FAILED, jobs[j].error))]
        /\ jobs' = [jobs EXCEPT ![j].pc = "fail_unlock", ![j].outcome = FAILED,
                                ![j].written = Append(@, FAILED)]
        /\ UNCHANGED <<requests, calls, unit, queue, tasks, job_key, doc_job>>

\* tasks.py 509-514: the except block deletes the lock and re-raises.
fail_unlock(j) ==
    LET d == jobs[j].document_id
    IN  /\ ~Delivering
        /\ jobs[j].pc = "fail_unlock"
        /\ doc_job' = [doc_job EXCEPT ![d] = 0]
        /\ jobs' = [jobs EXCEPT ![j].pc = "finally_unlock", ![j].raised = TRUE]
        /\ UNCHANGED <<docs, requests, calls, unit, queue, tasks, job_key, doc_progress>>

\* tasks.py 516-521: the finally block deletes the lock; summarize_document ends.
finally_unlock(j) ==
    LET d == jobs[j].document_id
    IN  /\ ~Delivering
        /\ jobs[j].pc = "finally_unlock"
        /\ doc_job' = [doc_job EXCEPT ![d] = 0]
        /\ jobs' = [jobs EXCEPT ![j].pc =
                       IF jobs[j].raised THEN "worker_except" ELSE "worker_return"]
        /\ UNCHANGED <<docs, requests, calls, unit, queue, tasks, job_key, doc_progress>>

\* The job once the worker function is over: RQ holds its status, the worker's
\* local variables are gone.
Exited(job, status) ==
    [NewJob(job.document_id) EXCEPT !.pc = "exit", !.status = status]

\* tasks.py 350-362: summarize_document_worker, a plain function, calls the
\* coroutine function update_document_progress_redis without awaiting it: the
\* coroutine object is dropped and the mirror is not written. The error is
\* re-raised and RQ marks the job failed.
worker_except(j) ==
    /\ ~Delivering
    /\ jobs[j].pc = "worker_except"
    /\ jobs' = [jobs EXCEPT ![j] = Exited(@, "failed")]
    /\ UNCHANGED <<docs, requests, calls, unit, queue, tasks, job_key, doc_job, doc_progress>>

\* tasks.py 346-348: the worker function returns; RQ marks the job finished.
worker_return(j) ==
    /\ ~Delivering
    /\ jobs[j].pc = "worker_return"
    /\ jobs' = [jobs EXCEPT ![j] = Exited(@, "finished")]
    /\ UNCHANGED <<docs, requests, calls, unit, queue, tasks, job_key, doc_job, doc_progress>>

Worker ==
    \/ \E j \in Jobs : worker_dequeue(j)
    \/ \E j \in Jobs : executor_entry(j)
    \/ \E j \in Jobs : stage_status(j)
    \/ \E j \in Jobs : stage_progress(j)
    \/ \E j \in Jobs : save_summary(j)
    \/ \E j \in Jobs : success_status(j)
    \/ \E j \in Jobs : success_progress(j)
    \/ \E j \in Jobs : fail_error(j)
    \/ \E j \in Jobs : fail_status(j)
    \/ \E j \in Jobs : fail_unlock(j)
    \/ \E j \in Jobs : finally_unlock(j)
    \/ \E j \in Jobs : worker_except(j)
    \/ \E j \in Jobs : worker_return(j)

Next ==
    \/ Admission
    \/ Worker
    \/ \E r \in Requests : deliver_response(r)

Spec == Init /\ [][Next]_vars

\* ------------------------------------------------------ Redis failures
\* The Redis commands of create_document_summarization_task at which a
\* connection error can leave the function, and what was done before each.
\* An error of Job.fetch is caught (tasks.py 308-310) and is not among them.
DispatchFailurePoints == {"get", "enqueue", "setex_job", "setex_lock"}

\* create_document_summarization_task(document_id) raising at `point`.
dispatch_raised_at(document_id, point) ==
    IF point = "get"
    THEN UNCHANGED rq_vars
    ELSE /\ ~SkipDuplicate(document_id)
         /\ tasks' = Append(tasks, NewTask(document_id))
         /\ IF point = "enqueue"
            THEN UNCHANGED <<jobs, queue>>
            ELSE /\ jobs' = Append(jobs, NewJob(document_id))
                 /\ queue' = Append(queue, Len(jobs) + 1)
         /\ job_key' = Append(job_key,
                IF point = "setex_lock" THEN Len(jobs) + 1 ELSE 0)
         /\ UNCHANGED doc_job

\* api.py 146-161, 225-244, 283-299: the dispatch raises, the error is logged,
\* and the 202 response is built from the document the request holds.
dispatch_raises(r) ==
    LET q == requests[r]
        document == q.document[1]
    IN  /\ ~Delivering
        /\ q.pc = "dispatch"
        /\ \E point \in DispatchFailurePoints :
              dispatch_raised_at(document.id, point)
        /\ requests' = [requests EXCEPT ![r] =
               [q EXCEPT !.pc = "done", !.task_id = [kind |-> "raised", n |-> 0],
                         !.dispatches = @ + 1,
                         !.response = DocumentResponse(document)]]
        /\ UNCHANGED <<calls, unit, docs, doc_progress>>

FaultNext ==
    \/ Next
    \/ \E r \in Requests : dispatch_raises(r)

\* As Init, with only FaultCalls admission calls left to make.
FaultInit ==
    /\ docs = <<>>
    /\ requests = [r \in Requests |-> IdleRequest]
    /\ calls = MaxCalls - FaultCalls
    /\ jobs = <<>>
    /\ queue = <<>>
    /\ tasks = <<>>
    /\ job_key = <<>>
    /\ doc_job = [d \in DocIds |-> 0]
    /\ doc_progress = [d \in DocIds |-> None]
    /\ unit = NoUnit

\* The system with a Redis that can fail under the dispatcher.
FaultSpec == FaultInit /\ [][FaultNext]_vars

\* ---------------------------------------------------------------- claims
\* The executor of a started job is running until summarize_document returns or
\* raises; a Run is in flight while it is queued or its executor is running.
Running(job) ==
    job.status = "started" /\ job.pc \notin {"worker_return", "worker_except"}

InFlight(job) == job.status = "queued" \/ Running(job)

\* The name or the url is owned by a row, and no row owns both.
PartialConflict(name, url) ==
    /\ \E d \in 1..Len(docs) : docs[d].name = name \/ docs[d].url = url
    /\ ~ \E d \in 1..Len(docs) : docs[d].name = name /\ docs[d].url = url

\* C1: an admission call for a pair that belongs to a resource resets the
\* resource to PENDING, returns 202 with the resource's id, enqueues at most
\* one Run, and enqueues one only if no Run of the resource is in flight.
C1_RetriggerEnqueuesOnlyWhenNoneInFlight ==
    [][\A r \in Requests :
          LET q == requests[r]
              d == q.document_id
          IN  /\ (q.pc = "reset" /\ requests'[r].pc = "refresh")
                    => docs'[d].status = PENDING
              /\ (q.matched /\ q.pc = "dispatch" /\ requests'[r].pc = "done")
                    => /\ requests'[r].response.code = 202
                       /\ requests'[r].response.document_uuid = d
                       /\ docs[d].name = q.name /\ docs[d].url = q.url
                       /\ Len(jobs') <= Len(jobs) + 1
                       /\ Len(jobs') > Len(jobs)
                             => \A j \in Jobs : jobs[j].document_id = d
                                                   => ~InFlight(jobs[j])]_vars

\* C2: a call for a pair that no row held when the call looked it up, and that
\* a concurrent call has persisted since, returns 202 with the id of that one
\* row, never 409 or 500.
C2_RaceLoserGetsWinnersId ==
    \A r \in Requests :
        LET q == requests[r]
            d == get_document_by_name_and_url(q.name, q.url)
        IN  (q.pc = "done" /\ (q.recovering \/ ~q.matched) /\ d # 0)
               => /\ q.response.code = 202
                  /\ q.response.document_uuid = d
                  /\ Cardinality({e \in 1..Len(docs) :
                         docs[e].name = q.name /\ docs[e].url = q.url}) = 1

\* C3: every step of a call whose name or url is owned by a row, with no row
\* owning both, leaves the store, the queue and the Redis keys unchanged, and
\* the call ends with 409.
C3_PartialConflictIs409AndChangesNothing ==
    [][\A r \in Requests :
          LET q == requests[r]
          IN  (q.pc \notin {"idle", "done"} /\ PartialConflict(q.name, q.url)
                 /\ requests'[r] # q)
                 => /\ UNCHANGED store_vars
                    /\ requests'[r].pc = "done"
                          => requests'[r].response.code = 409]_vars

C3_Witness ==
    \E r \in Requests :
        /\ requests[r].pc = "done"
        /\ requests[r].response.code = 409
        /\ PartialConflict(requests[r].name, requests[r].url)

\* C4: at most one Run per resource is queued or running.
C4_AtMostOneRunInFlight ==
    \A d \in DocIds :
        Cardinality({j \in Jobs : jobs[j].document_id = d /\ InFlight(jobs[j])}) <= 1

\* C5: while an executor run is under way, no step lowers the durable
\* progress of its resource.
C5_ProgressNonDecreasingDuringRun ==
    [][\A j \in Jobs :
          (Running(jobs[j]) /\ Running(jobs'[j]))
             => docs'[jobs[j].document_id].data_progress
                   >= docs[jobs[j].document_id].data_progress]_vars

\* C6: when an executor run ends, the durable progress is 1.0 if the run set
\* SUCCESS and 0.0 if it set FAILED.
C6_ProgressAtRunEnd ==
    [][\A j \in Jobs :
          (Running(jobs[j]) /\ ~Running(jobs'[j]))
             => /\ jobs[j].outcome = SUCCESS
                      => docs'[jobs[j].document_id].data_progress = 100
                /\ jobs[j].outcome = FAILED
                      => docs'[jobs[j].document_id].data_progress = 0]_vars

\* C7: a resource in PENDING, FETCHING or PARSING has a null summary.
C7_NoSummaryBeforeSummarizing ==
    \A d \in 1..Len(docs) :
        docs[d].status \in {PENDING, FETCHING, PARSING} => docs[d].summary = None

\* C8: a resource in SUCCESS has a non-null summary of at most 1500 characters.
C8_SuccessHasBoundedSummary ==
    \A d \in 1..Len(docs) :
        docs[d].status = SUCCESS
           => /\ docs[d].summary # None
              /\ TextLen(docs[d].summary[1]) <= SUMMARY_MAX_CHARS

\* C9: when an executor invocation ends, on whatever exit path, the dispatch
\* lock of its resource is absent.
C9_LockRemovedWhenExecutorEnds ==
    [][\A j \in Jobs :
          (Running(jobs[j]) /\ ~Running(jobs'[j]))
             => doc_job'[jobs[j].document_id] = 0]_vars

\* C10: a dispatch that finds the lock pointing to a queued or started Run
\* returns that Run's id and leaves the Run records, the jobs, the queue
\* and the lock unchanged.
C10_DispatchOnActiveRunIsNoOp ==
    [][\A r \in Requests :
          LET q == requests[r]
              d == q.document[1].id
          IN  (q.pc = "dispatch" /\ requests'[r].pc = "done"
                 /\ doc_job[d] # 0
                 /\ jobs[doc_job[d]].status \in {"queued", "started"})
                 => /\ requests'[r].task_id = [kind |-> "job", n |-> doc_job[d]]
                    /\ UNCHANGED <<tasks, jobs, job_key, queue, doc_job>>]_vars

C10_Witness ==
    \E r \in Requests :
        /\ requests[r].pc = "done"
        /\ requests[r].task_id.kind = "job"
        /\ doc_job[requests[r].response.document_uuid] = requests[r].task_id.n
        /\ jobs[requests[r].task_id.n].status \in {"queued", "started"}

\* C11: an executor that starts on a resource whose durable status is SUCCESS
\* or FAILED ends in that step, returning normally, and neither that step nor
\* the return to the worker writes the store, the mirror or the lock.
C11_EntryGuardHasNoSideEffect ==
    [][\A j \in Jobs :
          /\ (jobs[j].pc = "entry" /\ jobs'[j] # jobs[j]
                /\ docs[jobs[j].document_id].status \in {SUCCESS, FAILED})
                => /\ jobs'[j].pc = "worker_return"
                   /\ jobs'[j].outcome = "NONE"
                   /\ UNCHANGED <<docs, doc_progress, doc_job, tasks, job_key, queue>>
          /\ (jobs[j].pc = "worker_return" /\ jobs[j].outcome = "NONE"
                /\ jobs'[j] # jobs[j])
                => /\ jobs'[j].status = "finished"
                   /\ UNCHANGED <<docs, doc_progress, doc_job, tasks, job_key, queue>>]_vars

\* A job has left the executor through the entry guard, on a FAILED resource.
C11_Witness ==
    \E j \in Jobs :
        /\ jobs[j].pc = "worker_return"
        /\ jobs[j].outcome = "NONE"
        /\ docs[jobs[j].document_id].status = FAILED

\* C12: when a run whose stage failed ends, the durable status is FAILED,
\* last_error is the failure's message, and the mirror holds stage FAILED with
\* the same message.
C12_FailedRunEndsFailedWithMessage ==
    [][\A j \in Jobs :
          (Running(jobs[j]) /\ ~Running(jobs'[j]) /\ jobs[j].error # None)
             => LET d == jobs[j].document_id
                IN  /\ docs'[d].status = FAILED
                    /\ docs'[d].last_error = jobs[j].error
                    /\ doc_progress'[d] = Some(ProgressData(FAILED, jobs[j].error))]_vars

\* C13: an executor that recorded FAILED ends by returning normally to the
\* worker function, not by raising.
C13_FailureNotRaisedPastExecutor ==
    [][\A j \in Jobs :
          (Running(jobs[j]) /\ ~Running(jobs'[j]) /\ jobs[j].outcome = FAILED)
             => /\ jobs'[j].pc = "worker_return"
                /\ ~jobs'[j].raised]_vars

\* C14: a write of the executor (a step that changes a resource's status and
\* is not a step of an admission call) never sets PENDING and never changes a
\* status that is SUCCESS or FAILED.
C14_ExecutorKeepsTerminalStatus ==
    [][\A d \in 1..Len(docs) :
          (requests' = requests /\ docs'[d].status # docs[d].status)
             => /\ docs'[d].status # PENDING
                /\ docs[d].status \notin {SUCCESS, FAILED}]_vars

\* C15: an admission call whose dispatch raised returns 202, reports the
\* resource in status PENDING, and the row it created or reset is persisted
\* under the call's name and url.
C15_DispatchFailureStillReturns202Pending ==
    \A r \in Requests :
        LET q == requests[r]
        IN  (q.pc = "done" /\ q.task_id.kind = "raised")
               => /\ q.response.code = 202
                  /\ q.response.status = PENDING
                  /\ q.response.document_uuid \in 1..Len(docs)
                  /\ docs[q.response.document_uuid].name = q.name
                  /\ docs[q.response.document_uuid].url = q.url

\* C16: no admission call makes more than one dispatch call or writes more
\* than one row, and a call that returns 202 has created or reset exactly one
\* row, the one it reports, and made exactly one dispatch call.
C16_OneRowOneDispatchPer202 ==
    \A r \in Requests :
        LET q == requests[r]
        IN  /\ q.dispatches <= 1
            /\ q.rows <= 1
            /\ (q.pc = "done" /\ q.response.code = 202)
                  => /\ q.rows = 1
                     /\ q.dispatches = 1
                     /\ q.response.document_uuid = q.document_id

\* A call that lost the insert race and recovered by a reset has returned 202.
C16_Witness ==
    \E r \in Requests :
        /\ requests[r].pc = "done"
        /\ requests[r].response.code = 202
        /\ requests[r].recovering
        /\ requests[r].rows = 1
        /\ requests[r].dispatches = 1

\* C17: the reset of a re-trigger is one step that sets status PENDING,
\* summary null, last_error null and progress 0, keeps the row's identifier,
\* name, url and created_at, and changes no other row.
C17_ResetFrame ==
    [][\A r \in Requests :
          (requests[r].pc = "reset" /\ requests'[r].pc # "reset")
             => LET d == requests[r].document_id
                IN  /\ docs'[d].status = PENDING
                    /\ docs'[d].summary = None
                    /\ docs'[d].last_error = None
                    /\ docs'[d].data_progress = 0
                    /\ docs'[d].name = docs[d].name
                    /\ docs'[d].url = docs[d].url
                    /\ docs'[d].created_at = docs[d].created_at
                    /\ Len(docs') = Len(docs)
                    /\ \A e \in 1..Len(docs) : e # d => docs'[e] = docs[e]]_vars

\* A reset has just acted, next to another resource, on a resource whose one
\* run had failed: the row is PENDING with no error, so the reset came after
\* the run's writes.
C17_Witness ==
    \E r \in Requests :
        LET d == requests[r].document_id
        IN  /\ requests[r].pc = "refresh"
            /\ requests[r].matched
            /\ Len(docs) = 2
            /\ docs[d].status = PENDING
            /\ docs[d].last_error = None
            /\ \E j \in Jobs : jobs[j].document_id = d
            /\ \A j \in Jobs : jobs[j].document_id = d => jobs[j].status = "failed"

\* C18: no two distinct rows share a name, and no two distinct rows share a url.
C18_NameAndUrlUnique ==
    \A d, e \in 1..Len(docs) :
        d # e => (docs[d].name # docs[e].name /\ docs[d].url # docs[e].url)

\* Two rows exist, and a call whose insert hit a unique constraint is under way.
C18_Witness ==
    /\ Len(docs) = 2
    /\ \E r \in Requests : requests[r].recovering

\* C19: every 202 response of an admission call reports status PENDING, a
\* null summary and progress 0.
C19_Every202ReportsPending ==
    \A r \in Requests :
        (requests[r].pc = "done" /\ requests[r].response.code = 202)
           => /\ requests[r].response.status = PENDING
              /\ requests[r].response.summary = None
              /\ requests[r].response.data_progress = 0

\* C20: once the system has come to rest (no admission call under way, no Run
\* queued or running, so that nothing but a new admission call can happen),
\* every resource is in SUCCESS or FAILED: none is left in PENDING or in a
\* stage with no Run to move it on.
C20_NoResourceLeftWithoutRun ==
    (/\ \A r \in Requests : requests[r].pc = "idle"
     /\ queue = <<>>
     /\ \A j \in Jobs : jobs[j].pc = "exit")
       => \A d \in 1..Len(docs) : docs[d].status \in {SUCCESS, FAILED}


\* ================================================== components on their own
\* The Safe Fetcher, the Summarization Client and the Run operations of
\* app/tasks.py, each called once on inputs drawn from a bounded set. The
\* variable unit holds the call: its input, its position and its result.

\* ------------------------------------------------------------------- urls
\* A url is what the client wrote: a scheme as typed, and a host that is
\* absent, a name, or an address literal given by its groups (four octets
\* for IPv4, eight 16-bit groups for IPv6, written in brackets in a url).
NoHost == [kind |-> "none"]
HostName(name) == [kind |-> "name", name |-> name]
V4(a, b, c, d) == [kind |-> "v4", groups |-> <<a, b, c, d>>]
V6(a, b, c, d, e, f, g, h) == [kind |-> "v6", groups |-> <<a, b, c, d, e, f, g, h>>]

\* An exception: its class, its message, and the error it was raised from.
Exception(type, message, last_error) ==
    [type |-> type, message |-> message, last_error |-> last_error]

ProcessingError(message, last_error) ==
    Exception("ProcessingError", message, last_error)

\* str.lower() on the schemes of the alphabet
Lower(s) ==
    CASE s = "HTTP" -> "http"
      [] s = "HTTPS" -> "https"
      [] s = "FILE" -> "file"
      [] OTHER -> s

\* urllib.parse.urlparse: the scheme is lower-cased, the hostname is the host
\* without brackets, None when the url has no host
urlparse(url) ==
    [scheme |-> Lower(url.scheme),
     hostname |-> IF url.host.kind = "none" THEN None ELSE Some(url.host)]

\* ipaddress.ip_address(hostname): the address, or ValueError for a hostname
\* that is not an address literal
ip_address(hostname) ==
    IF hostname.kind \in {"v4", "v6"}
    THEN Return([version |-> IF hostname.kind = "v4" THEN 4 ELSE 6,
                 groups |-> hostname.groups])
    ELSE Raise(Exception("ValueError", "not an address", None))

\* ipaddress.ip_network("a.b.c.d/p") and ("x:x::/p")
ip_network(version, groups, prefixlen) ==
    [version |-> version, groups |-> groups, prefixlen |-> prefixlen]

Net4(a, b, c, d, p) == ip_network(4, <<a, b, c, d>>, p)

PRIVATE_IP_RANGES ==
    << Net4(127, 0, 0, 0, 8),
       Net4(10, 0, 0, 0, 8),
       Net4(172, 16, 0, 0, 12),
       Net4(192, 168, 0, 0, 16),
       Net4(169, 254, 0, 0, 16),
       Net4(224, 0, 0, 0, 4),
       Net4(240, 0, 0, 0, 4),
       ip_network(6, <<0, 0, 0, 0, 0, 0, 0, 1>>, 128),       \* ::1/128
       ip_network(6, <<64512, 0, 0, 0, 0, 0, 0, 0>>, 7),     \* fc00::/7
       ip_network(6, <<65152, 0, 0, 0, 0, 0, 0, 0>>, 10) >>  \* fe80::/10

\* a backoff that does not grow
Pow2Flat(k) == 1

RECURSIVE Pow2(_)
Pow2(k) == IF k <= 0 THEN 1 ELSE 2 * Pow2(k - 1)

GroupBits(version) == IF version = 4 THEN 8 ELSE 16

\* the number of leading bits of group i that a prefix of length p covers
CoveredBits(version, i, p) ==
    LET g == GroupBits(version)
        left == p - (i - 1) * g
    IN  IF left <= 0 THEN 0 ELSE IF left >= g THEN g ELSE left

\* `ip in network`: False for an address of the other version, else the
\* address and the network agree on the leading prefixlen bits
InNetwork(ip, network) ==
    /\ ip.version = network.version
    /\ \A i \in 1..Len(ip.groups) :
          LET drop == Pow2(GroupBits(ip.version)
                           - CoveredBits(ip.version, i, network.prefixlen))
          IN  ip.groups[i] \div drop = network.groups[i] \div drop

\* the loop over PRIVATE_IP_RANGES
PrivateRange(ip) ==
    \E n \in 1..Len(PRIVATE_IP_RANGES) : InNetwork(ip, PRIVATE_IP_RANGES[n])

\* validate_url_security(url): None, or the ProcessingError it raises. Nothing
\* else can be raised by the parse of a url of this alphabet.
validate_url_security(url) ==
    LET parsed_url == urlparse(url)
    IN  IF parsed_url.scheme = "file"
        THEN Raise(ProcessingError("File scheme not allowed", None))
        ELSE IF parsed_url.scheme \notin {"http", "https"}
        THEN Raise(ProcessingError("Only HTTP/HTTPS schemes allowed", None))
        ELSE IF parsed_url.hostname = None
        THEN Return(None)
        ELSE LET ip == ip_address(parsed_url.hostname[1])
             IN  IF ip.error # None THEN Return(None)
                 ELSE IF PrivateRange(ip.value[1])
                 THEN Raise(ProcessingError("Private IP address not allowed", None))
                 ELSE Return(None)


\* ------------------------------------------------------- the safe fetcher
MAX_CONTENT_LENGTH == 10485760
FETCH_MAX_RETRIES == 3

Schemes == {"http", "https", "HTTP", "file", "ftp", ""}

Hosts ==
    { NoHost, HostName("example.com"), HostName("localhost"),
      V4(8, 8, 8, 8), V4(126, 255, 255, 255), V4(127, 0, 0, 1), V4(128, 0, 0, 0),
      V4(10, 1, 2, 3), V4(11, 0, 0, 0),
      V4(172, 15, 255, 255), V4(172, 16, 0, 1), V4(172, 31, 255, 255),
      V4(172, 32, 0, 0),
      V4(192, 168, 1, 1), V4(192, 169, 0, 0),
      V4(169, 254, 169, 254), V4(169, 255, 0, 0),
      V4(223, 255, 255, 255), V4(224, 0, 0, 1), V4(239, 255, 255, 255),
      V4(240, 0, 0, 1), V4(255, 255, 255, 255),
      V6(0, 0, 0, 0, 0, 0, 0, 1), V6(0, 0, 0, 0, 0, 0, 0, 2),
      V6(64512, 0, 0, 0, 0, 0, 0, 1), V6(64768, 0, 0, 0, 0, 0, 0, 1),
      V6(65152, 0, 0, 0, 0, 0, 0, 1), V6(65215, 0, 0, 0, 0, 0, 0, 1),
      V6(65216, 0, 0, 0, 0, 0, 0, 1),
      V6(65282, 0, 0, 0, 0, 0, 0, 1),
      V6(9734, 18176, 0, 0, 0, 0, 0, 4369) }

ExtractUrls == [scheme : Schemes, host : Hosts]

\* What one GET can produce: a response with its status, its content-length
\* header and the size of its body in bytes (a header need not tell the
\* truth), or a transport exception of httpx.
GetResults ==
    [kind : {"response"}, status : {200},
     content_length : {None, Some(100), Some(MAX_CONTENT_LENGTH),
                       Some(MAX_CONTENT_LENGTH + 1)},
     body_bytes : {100, MAX_CONTENT_LENGTH + 1}]
    \cup [kind : {"response"}, status : {500}, content_length : {None},
          body_bytes : {100}]
    \cup [kind : {"exception"},
          exception : {Exception("ConnectError", "connection refused", None),
                       Exception("ReadTimeout", "read timed out", None)}]

\* response.raise_for_status(): the HTTPStatusError of a 4xx or 5xx response
raise_for_status(response) ==
    IF response.status >= 400
    THEN Raise(Exception("HTTPStatusError", "server error", None))
    ELSE Return(None)

\* a transport error that is never taken for one of httpx.HTTPError
IsHTTPErrorNever(e) == FALSE

\* every exception taken for one of httpx.HTTPError
IsHTTPErrorAlways(e) == TRUE

\* isinstance(e, httpx.HTTPError)
IsHTTPError(e) == e.type \in {"ConnectError", "ReadTimeout", "HTTPStatusError"}

\* The body of the try of one iteration of the loop of fetch_with_retries:
\* the response it returns, or the exception it raises.
fetch_attempt(result) ==
    IF result.kind = "exception" THEN Raise(result.exception)
    ELSE IF raise_for_status(result).error # None
    THEN Raise(raise_for_status(result).error[1])
    ELSE IF result.content_length # None
            /\ result.content_length[1] > MAX_CONTENT_LENGTH
    THEN Raise(ProcessingError("Content too large", None))
    ELSE Return(result)

\* A call of ContentExtractor.extract_content_from_url(url) up to the size
\* check of the body: the GETs sent, the sleeps taken, what each iteration of
\* the loop ended with, the outcome of the validation and of
\* fetch_with_retries (pc "done"), and what the size check came to.
ExtractCall(url) ==
    [kind |-> "extract", url |-> url, pc |-> "validate", attempt |-> 0,
     gets |-> 0, last_exception |-> None, slept |-> <<>>, attempts |-> <<>>,
     outcome |-> None, checked |-> None]

extract_validate ==
    /\ unit.kind = "extract"
    /\ unit.pc = "validate"
    /\ LET v == validate_url_security(unit.url)
       IN  unit' = IF v.error # None
                   THEN [unit EXCEPT !.pc = "done", !.outcome = Some(v)]
                   ELSE [unit EXCEPT !.pc = "get"]
    /\ UNCHANGED <<calls, requests, store_vars>>

\* One iteration of `for attempt in range(max_retries)`.
fetch_with_retries(result) ==
    /\ unit.kind = "extract"
    /\ unit.pc = "get"
    /\ unit.attempt < FETCH_MAX_RETRIES
    /\ LET r == fetch_attempt(result)
           got == [unit EXCEPT !.gets = @ + 1, !.attempts = Append(@, r)]
       IN  unit' =
             IF r.error = None
             THEN [got EXCEPT !.pc = "done", !.outcome = Some(r)]
             ELSE IF ~IsHTTPError(r.error[1])
             THEN [got EXCEPT !.pc = "done", !.outcome = Some(r)]
             ELSE IF unit.attempt < FETCH_MAX_RETRIES - 1
             THEN [got EXCEPT !.last_exception = r.error,
                              !.slept = Append(@, Pow2(unit.attempt)),
                              !.attempt = @ + 1]
             ELSE [got EXCEPT !.last_exception = r.error, !.pc = "done",
                              !.outcome = Some(Raise(ProcessingError(
                                  "Failed to fetch URL after 3 attempts",
                                  r.error)))]
    /\ UNCHANGED <<calls, requests, store_vars>>

\* extraction.py 180-191: the size check of the body that was read.
extract_check_size ==
    /\ unit.kind = "extract"
    /\ unit.pc = "done"
    /\ unit.checked = None
    /\ unit.outcome[1].error = None
    /\ LET response == unit.outcome[1].value[1]
       IN  unit' = [unit EXCEPT !.checked =
               IF response.body_bytes > MAX_CONTENT_LENGTH
               THEN Some(Raise(ProcessingError(
                        "Content too large after fetching", None)))
               ELSE Some(Return(response))]
    /\ UNCHANGED <<calls, requests, store_vars>>


\* ------------------------------------------------ the summarization client
\* The largest settings.ollama_max_retries a call is made with.
MaxOllamaRetries == 3

\* What one request to Ollama can produce: a response with its status, or an
\* exception of httpx.
OllamaRequestResults ==
    [kind : {"response"}, status : {200, 500}, content_length : {None}]
    \cup [kind : {"exception"},
          exception : {Exception("ReadTimeout", "read timed out", None),
                       Exception("ConnectTimeout", "connect timed out", None),
                       Exception("ConnectError", "connection refused", None)}]

\* an error that is always taken for a timeout
IsTimeoutAlways(e) == TRUE

\* isinstance(e, (httpx.TimeoutException, httpx.ConnectTimeout, httpx.ReadTimeout))
IsTimeout(e) ==
    e.type \in {"TimeoutException", "ConnectTimeout", "ReadTimeout",
                "WriteTimeout", "PoolTimeout"}

\* The body of the try of one iteration of the loop of _make_request.
request_attempt(result) ==
    IF result.kind = "exception" THEN Raise(result.exception)
    ELSE IF raise_for_status(result).error # None
    THEN Raise(raise_for_status(result).error[1])
    ELSE Return(result)

\* A call of OllamaClient._make_request with self.max_retries = max_retries.
RequestCall(max_retries) ==
    [kind |-> "request", max_retries |-> max_retries, pc |-> "attempt",
     attempt |-> 0, slept |-> <<>>, attempts |-> <<>>, outcome |-> None]

\* One iteration of `for attempt in range(self.max_retries + 1)`.
make_request(result) ==
    /\ unit.kind = "request"
    /\ unit.pc = "attempt"
    /\ unit.attempt < unit.max_retries + 1
    /\ LET r == request_attempt(result)
           sent == [unit EXCEPT !.attempts = Append(@, r)]
       IN  unit' =
             IF r.error = None
             THEN [sent EXCEPT !.pc = "done", !.outcome = Some(r)]
             ELSE IF IsTimeout(r.error[1])
             THEN IF unit.attempt < unit.max_retries
                  THEN [sent EXCEPT !.slept = Append(@, Pow2(unit.attempt)),
                                    !.attempt = @ + 1]
                  ELSE [sent EXCEPT !.pc = "done",
                            !.outcome = Some(Raise(Exception("Exception",
                                "Ollama request timed out", r.error)))]
             ELSE [sent EXCEPT !.pc = "done",
                       !.outcome = Some(Raise(Exception("Exception",
                           "Ollama request failed", r.error)))]
    /\ UNCHANGED <<calls, requests, store_vars>>

\* --------------------------------------------------------------- trimming
\* The longest text a trim is tried on, in runs.
MaxTextRuns == 3

TextChars == {"a", ".", "!", "?", " "}
RunLengths == {1, 2, SUMMARY_MAX_CHARS - 1}
TextRuns == [ch : TextChars, n : RunLengths]

\* the texts of at most MaxTextRuns runs, no two adjacent runs of one character
Texts ==
    UNION { { t \in [1..k -> TextRuns] :
                \A i \in 1..(k - 1) : t[i].ch # t[i + 1].ch }
            : k \in 0..MaxTextRuns }

MaxLengths == {0, 1, 2, 3, SUMMARY_MAX_CHARS, SUMMARY_MAX_CHARS + 1}

\* a 2000-character text whose last sentence ends at offset 1400
LongText ==
    <<[ch |-> "a", n |-> 1400], [ch |-> ".", n |-> 1], [ch |-> "a", n |-> 599]>>

\* A call of OllamaClient._trim_to_sentence_boundary(text, max_length), and a
\* call of OllamaClient.summarize for which generate returns text.
TrimCall(text, max_length) ==
    [kind |-> "trim", text |-> text, max_length |-> max_length,
     pc |-> "call", outcome |-> None]

SummarizeCall(text) ==
    [kind |-> "summarize", text |-> text, pc |-> "call", outcome |-> None]

trim_call ==
    /\ unit.kind = "trim"
    /\ unit.pc = "call"
    /\ unit' = [unit EXCEPT
           !.pc = "done",
           !.outcome = Some(Return(trim_to_sentence_boundary(unit.text,
                                                             unit.max_length)))]
    /\ UNCHANGED <<calls, requests, store_vars>>

summarize_call ==
    /\ unit.kind = "summarize"
    /\ unit.pc = "call"
    /\ unit' = [unit EXCEPT
           !.pc = "done",
           !.outcome = Some(summarize([error |-> None, text |-> unit.text]))]
    /\ UNCHANGED <<calls, requests, store_vars>>

\* ------------------------------------------------------------------- runs
\* One Run of each type, from its creation to the end of its job, with one
\* cancel at any moment: the Run record task:{task_id}, the keys of job:*,
\* the status of the RQ job, and the worker function with the number of
\* "processing" updates it has made. The two identifiers of a Run are its
\* task id and the id of its RQ job.
RunTypes == {"summarize", "extract", "document_summarize"}

RunCall(type) ==
    [kind |-> "run", type |-> type, pc |-> "create", task |-> None,
     job_keys |-> {}, job_status |-> "none", cancel_result |-> None,
     worker |-> "idle", updates |-> 0]

\* the key under which the create function of the type stores the job id
JobKey(type) == IF type = "extract" THEN "job.id" ELSE "task_id"

\* create_summarize_task, create_extraction_task and the new dispatch of
\* create_document_summarization_task
create_task ==
    /\ unit.kind = "run"
    /\ unit.pc = "create"
    /\ unit' = [unit EXCEPT
           !.pc = "created",
           !.task = Some([type |-> unit.type, status |-> "pending",
                          progress |-> 0]),
           !.job_status = "queued",
           !.job_keys = {JobKey(unit.type)}]
    /\ UNCHANGED <<calls, requests, store_vars>>

\* A worker takes the job and calls the worker function.
run_start ==
    /\ unit.kind = "run"
    /\ unit.job_status = "queued"
    /\ unit' = [unit EXCEPT !.job_status = "started", !.worker = "running"]
    /\ UNCHANGED <<calls, requests, store_vars>>

\* update_task_progress(task_id, status, progress)
update_task_progress(run, status, progress) ==
    IF run.task = None THEN run
    ELSE [run EXCEPT !.task = Some([@[1] EXCEPT !.status = status,
                                                !.progress = progress])]

\* The updates "processing" 25.0, 50.0 and 75.0 of summarize_text_worker and
\* of extract_content_worker; summarize_document_worker writes nothing to
\* the Run record.
run_progress ==
    /\ unit.kind = "run"
    /\ unit.type \in {"summarize", "extract"}
    /\ unit.worker = "running"
    /\ unit.updates < 3
    /\ unit' = [update_task_progress(unit, "processing", 25 * (unit.updates + 1))
                   EXCEPT !.updates = @ + 1]
    /\ UNCHANGED <<calls, requests, store_vars>>

\* The worker function returns or raises: the worker of an ad-hoc Run has
\* written "completed" or "failed" to the Run record, and RQ marks the job
\* unless it was cancelled.
run_finish ==
    /\ unit.kind = "run"
    /\ unit.worker = "running"
    /\ \E status \in {"completed", "failed"} :
          /\ (status = "completed" /\ unit.type # "document_summarize")
                => unit.updates = 3
          /\ unit' = [(IF unit.type = "document_summarize" THEN unit
                       ELSE update_task_progress(unit, status,
                                IF status = "completed" THEN 100 ELSE 0))
                        EXCEPT !.worker = "over",
                               !.job_status =
                                   IF @ # "started" THEN @
                                   ELSE IF status = "completed" THEN "finished"
                                   ELSE "failed"]
    /\ UNCHANGED <<calls, requests, store_vars>>

\* Whether the function of a job that is cancelled while it executes runs
\* on to its end is left to RQ: it may also be stopped where it stands.
run_stopped ==
    /\ unit.kind = "run"
    /\ unit.worker = "running"
    /\ unit.job_status = "canceled"
    /\ unit' = [unit EXCEPT !.worker = "over"]
    /\ UNCHANGED <<calls, requests, store_vars>>

\* a test that takes a queued job for a started one
is_started_or_queued(status) == status \in {"queued", "started"}

\* rq Job.is_started
is_started(status) == status = "started"

\* cancel_task(task_id), on a Run that was created or on an id that no
\* create function has returned. The keys and the job of a Run outlive it
\* here: their expiry is not modelled.
cancel_task ==
    /\ unit.kind = "run"
    /\ unit.cancel_result = None
    /\ unit' =
         IF "task_id" \in unit.job_keys /\ is_started(unit.job_status)
         THEN [update_task_progress([unit EXCEPT !.job_status = "canceled"],
                                    "cancelled", 0)
                  EXCEPT !.cancel_result = Some(TRUE)]
         ELSE [unit EXCEPT !.cancel_result = Some(FALSE)]
    /\ UNCHANGED <<calls, requests, store_vars>>

\* -------------------------------------------------------- specification
UnitCalls ==
    {ExtractCall(url) : url \in ExtractUrls}
    \cup {RequestCall(max_retries) : max_retries \in 0..MaxOllamaRetries}
    \cup {TrimCall(text, max_length) :
             text \in Texts \cup {LongText}, max_length \in MaxLengths}
    \cup {SummarizeCall(text) : text \in Texts}
    \cup {RunCall(type) : type \in RunTypes}

UnitInit ==
    /\ docs = <<>>
    /\ requests = [r \in Requests |-> IdleRequest]
    /\ calls = 0
    /\ jobs = <<>>
    /\ queue = <<>>
    /\ tasks = <<>>
    /\ job_key = <<>>
    /\ doc_job = [d \in DocIds |-> 0]
    /\ doc_progress = [d \in DocIds |-> None]
    /\ unit \in UnitCalls

UnitNext ==
    \/ extract_validate
    \/ \E result \in GetResults : fetch_with_retries(result)
    \/ extract_check_size
    \/ \E result \in OllamaRequestResults : make_request(result)
    \/ trim_call
    \/ summarize_call
    \/ create_task
    \/ run_start
    \/ run_progress
    \/ run_finish
    \/ run_stopped
    \/ cancel_task

\* A component that was called runs on: a sleep ends, a request is answered
\* or fails.
UnitSpec == UnitInit /\ [][UnitNext]_vars /\ WF_vars(UnitNext)


\* C21: the url is validated before any network call: a url whose scheme is
\* not http or https, or whose host is an address literal of a loopback,
\* private, link-local, multicast or reserved range of IPv4 or IPv6, ends
\* extract_content_from_url with a processing failure and no GET sent, and a
\* url with an http or https scheme and a hostname that is no literal passes.
C21_UnsafeUrlRaisesBeforeAnyGet ==
    LET url == unit.url
        literal == url.host.kind \in {"v4", "v6"}
        ip == [version |-> IF url.host.kind = "v4" THEN 4 ELSE 6,
               groups |-> url.host.groups]
        loopback == \/ InNetwork(ip, Net4(127, 0, 0, 0, 8))
                    \/ InNetwork(ip, ip_network(6, <<0, 0, 0, 0, 0, 0, 0, 1>>, 128))
        private == \/ InNetwork(ip, Net4(10, 0, 0, 0, 8))
                   \/ InNetwork(ip, Net4(172, 16, 0, 0, 12))
                   \/ InNetwork(ip, Net4(192, 168, 0, 0, 16))
                   \/ InNetwork(ip, ip_network(6, <<64512, 0, 0, 0, 0, 0, 0, 0>>, 7))
        link_local == \/ InNetwork(ip, Net4(169, 254, 0, 0, 16))
                      \/ InNetwork(ip, ip_network(6, <<65152, 0, 0, 0, 0, 0, 0, 0>>, 10))
        multicast == \/ InNetwork(ip, Net4(224, 0, 0, 0, 4))
                     \/ InNetwork(ip, ip_network(6, <<65280, 0, 0, 0, 0, 0, 0, 0>>, 8))
        reserved == InNetwork(ip, Net4(240, 0, 0, 0, 4))
        allowed_scheme == Lower(url.scheme) \in {"http", "https"}
        unsafe == \/ ~allowed_scheme
                  \/ literal /\ (loopback \/ private \/ link_local \/ multicast
                                 \/ reserved)
    IN  unit.kind = "extract"
        => /\ unit.pc = "validate" => unit.gets = 0
           /\ (unsafe /\ unit.pc # "validate")
                 => /\ unit.pc = "done"
                    /\ unit.gets = 0
                    /\ unit.outcome[1].error # None
                    /\ unit.outcome[1].error[1].type = "ProcessingError"
           /\ (allowed_scheme /\ url.host.kind = "name" /\ unit.pc # "validate")
                 => (unit.pc = "get" \/ unit.gets > 0)


\* C22: fetch_with_retries sends at most 3 GETs and always ends: it returns
\* the first response that succeeds, every attempt before it having failed
\* with a transport error, and when all 3 attempts fail with transport errors
\* it raises a processing failure that carries the last of them.
C22_FetchEndsWithinThreeGets ==
    /\ [](unit.kind = "extract"
          => LET n == Len(unit.attempts)
                 transport(e) ==
                     e.type \in {"ConnectError", "ReadTimeout", "HTTPStatusError"}
             IN  /\ unit.gets = n
                 /\ n <= 3
                 /\ \A i \in 1..(n - 1) :
                       /\ unit.attempts[i].error # None
                       /\ transport(unit.attempts[i].error[1])
                 /\ (unit.pc = "get") => (n = unit.attempt /\ n < 3)
                 /\ (unit.pc = "done" /\ n > 0)
                       => LET last == unit.attempts[n]
                          IN  /\ last.error = None
                                    => /\ unit.outcome = Some(last)
                                       /\ last.value[1].status < 400
                              /\ (last.error # None /\ transport(last.error[1]))
                                    => /\ n = 3
                                       /\ unit.outcome[1].error # None
                                       /\ unit.outcome[1].error[1].type
                                              = "ProcessingError"
                                       /\ unit.outcome[1].error[1].last_error
                                              = last.error)
    /\ (unit.kind = "extract") ~> (unit.kind = "extract" /\ unit.pc = "done")

C22_Witness ==
    /\ unit.kind = "extract"
    /\ unit.pc = "done"
    /\ unit.gets = 3
    /\ unit.slept = <<1, 2>>
    /\ \A i \in 1..3 : unit.attempts[i].error # None
    /\ unit.attempts[1].error[1].type = "ConnectError"
    /\ unit.attempts[3].error[1].type = "ReadTimeout"
    /\ unit.outcome[1].error[1].last_error[1].type = "ReadTimeout"


\* C23: the request loop of the summarization client retries only after a
\* timeout-class error, makes at most max_retries + 1 attempts, sleeps
\* 2^attempt seconds before the retry that follows attempt number `attempt`
\* (from 0), and ends with an error at the first error of another class.
C23_RetriesOnlyTimeoutsWithBackoff ==
    unit.kind = "request"
    => LET n == Len(unit.attempts)
           timeout(e) == e.type \in {"TimeoutException", "ConnectTimeout",
                                      "ReadTimeout"}
           retries == IF unit.pc = "done" THEN n - 1 ELSE n
       IN  /\ n <= unit.max_retries + 1
           /\ \A i \in 1..retries :
                 /\ unit.attempts[i].error # None
                 /\ timeout(unit.attempts[i].error[1])
           /\ Len(unit.slept) = retries
           /\ \A i \in 1..retries : unit.slept[i] = Pow2(i - 1)
           /\ (unit.pc = "attempt") => (unit.attempt = n /\ n <= unit.max_retries)
           /\ \A i \in 1..n :
                 (unit.attempts[i].error # None
                  /\ ~timeout(unit.attempts[i].error[1]))
                 => /\ i = n
                    /\ unit.pc = "done"
                    /\ unit.outcome[1].error # None
                    /\ unit.outcome[1].error[1].last_error = unit.attempts[i].error
           /\ (unit.pc = "done" /\ unit.attempts[n].error # None)
                 => unit.outcome[1].error # None

C23_Witness ==
    /\ unit.kind = "request"
    /\ unit.pc = "done"
    /\ unit.max_retries = 2
    /\ unit.slept = <<1, 2>>
    /\ unit.attempts[3].error # None
    /\ unit.attempts[3].error[1].type = "ConnectError"
    /\ unit.outcome[1].error # None


\* C24: for every text and every bound max_length, the trim returns a prefix
\* of the text of at most max_length characters, the text itself when it is
\* within the bound; so a summary that summarize returns has at most 1500
\* characters.
C24_TrimReturnsBoundedPrefix ==
    /\ (unit.kind = "trim" /\ unit.pc = "done")
          => LET result == unit.outcome[1].value[1]
             IN  /\ TextLen(result) <= unit.max_length
                 /\ result = Prefix(unit.text, TextLen(result))
                 /\ TextLen(unit.text) <= unit.max_length => result = unit.text
    /\ (unit.kind = "summarize" /\ unit.pc = "done"
        /\ unit.outcome[1].error = None)
          => LET summary == unit.outcome[1].value[1]
             IN  /\ TextLen(summary) <= 1500
                 /\ summary = Prefix(unit.text, TextLen(summary))

C24_Witness ==
    /\ unit.kind = "trim"
    /\ unit.pc = "done"
    /\ TextLen(unit.text) > unit.max_length
    /\ unit.max_length = 1500
    /\ TextLen(unit.outcome[1].value[1]) \in 2..1499
    /\ RFind(unit.text, ".") > 1500


\* C25: a cancel of a Run whose job has started cancels the job, sets the
\* status of the Run record to cancelled and returns true, whatever the type
\* of the Run: ad-hoc summarize, ad-hoc extract or document pipeline.
C25_CancelOfStartedRunTakesEffect ==
    [][(/\ unit.kind = "run"
        /\ unit.job_status = "started"
        /\ unit.cancel_result = None
        /\ unit'.cancel_result # None)
       => /\ unit'.cancel_result = Some(TRUE)
          /\ unit'.job_status = "canceled"
          /\ unit'.task # None
          /\ unit'.task[1].status = "cancelled"]_vars


\* C26: the Run record that a dispatch creates follows the pipeline: once
\* the executor of its job has finished, the status of the record is
\* completed or failed, not the pending it was created with.
C26_RunRecordFollowsExecutor ==
    \A t \in 1..Len(tasks) :
        (job_key[t] # 0 /\ jobs[job_key[t]].pc = "exit")
        => tasks[t].status \in {"completed", "failed"}


\* C27: the status values that one run of the executor writes to the row
\* are a prefix of FETCHING, PARSING, SUMMARIZING, SUCCESS, optionally
\* followed by FAILED: no stage is skipped, repeated or out of order.
C27_StatusWritesFollowStageOrder ==
    LET order == <<FETCHING, PARSING, SUMMARIZING, SUCCESS>>
    IN  \A j \in Jobs :
           \E k \in 0..Len(order) :
              \/ jobs[j].written = SubSeq(order, 1, k)
              \/ jobs[j].written = Append(SubSeq(order, 1, k), FAILED)

C27_Witness ==
    \E j \in Jobs, k \in Jobs :
       /\ jobs[j].written = <<FETCHING, PARSING, SUMMARIZING, FAILED>>
       /\ jobs[k].written = <<FETCHING, PARSING, SUMMARIZING, SUCCESS>>


\* C28: on entering a stage the executor writes the checkpoint of the stage
\* (0.20, 0.40, 0.90, 1.00, and 0.00 for FAILED) to the durable progress and
\* to the mirror, so whenever the executor stands between two stage
\* transitions the stage and the progress of the mirror are the status and
\* the progress of the row.
C28_MirrorEqualsRowBetweenStages ==
    \A j \in Jobs :
        LET d == jobs[j].document_id
            between ==
                \/ jobs[j].pc = "status" /\ jobs[j].written # <<>>
                \/ jobs[j].pc \in {"fail_error", "save_summary", "success_status",
                                   "fail_unlock", "finally_unlock"}
        IN  between
            => /\ doc_progress[d] # None
               /\ doc_progress[d][1].stage = docs[d].status
               /\ doc_progress[d][1].progress = docs[d].data_progress
               /\ docs[d].data_progress = DOCUMENT_STAGE_PROGRESS[docs[d].status]


\* C29: when the insert raises the uniqueness violation because a concurrent
\* request inserted a row with the same name only or the same url only, the
\* call ends with 409 naming the row that owns the name or the url, inserts
\* no row and dispatches nothing; it ends with 500 only when neither lookup
\* finds a row that explains the violation.
C29_RecoveryOfPartialConflictIs409 ==
    \A r \in Requests :
        LET q == requests[r]
        IN  /\ (q.pc = "done" /\ q.recovering /\ PartialConflict(q.name, q.url))
                  => /\ q.response.code = 409
                     /\ q.rows = 0
                     /\ q.dispatches = 0
                     /\ q.name_conflict # 0 \/ q.url_conflict # 0
                     /\ q.name_conflict # 0 => docs[q.name_conflict].name = q.name
                     /\ q.url_conflict # 0 => docs[q.url_conflict].url = q.url
            /\ (q.pc = "done" /\ q.response.code = 500)
                  => /\ q.recovering
                     /\ \A d \in 1..Len(docs) :
                           docs[d].name # q.name /\ docs[d].url # q.url

C29_Witness ==
    \E r \in Requests :
        /\ requests[r].pc = "done"
        /\ requests[r].recovering
        /\ requests[r].response.code = 409
        /\ requests[r].url_conflict # 0
        /\ requests[r].name_conflict = 0
        /\ PartialConflict(requests[r].name, requests[r].url)


\* C30: in the conflict check between a failed exact-match lookup and the
\* insert, the name lookup and the url lookup never return the same row, in
\* any interleaving; so a call is never answered 409 when a row owns both
\* its name and its url.
C30_SameRowConflictNeverReached ==
    \A r \in Requests :
        LET q == requests[r]
        IN  (q.pc = "done" /\ q.response.code = 409)
            => /\ ~q.recovering
                  => ~(q.name_conflict # 0 /\ q.name_conflict = q.url_conflict)
               /\ get_document_by_name_and_url(q.name, q.url) = 0


\* C31: the fetcher retries only after a transport-level error: a url that
\* fails the validation, a declared content-length above 10MB and a body
\* above 10MB once read each end the call with a processing failure, and no
\* GET is sent after any of them.
C31_ApplicationFailureEndsFetchAtOnce ==
    /\ [](unit.kind = "extract"
          => LET n == Len(unit.attempts)
                 transport(e) ==
                     e.type \in {"ConnectError", "ReadTimeout", "HTTPStatusError"}
                 failure(o) ==
                     o.error # None /\ o.error[1].type = "ProcessingError"
             IN  /\ (validate_url_security(unit.url).error # None
                     /\ unit.pc # "validate")
                       => /\ unit.pc = "done"
                          /\ unit.gets = 0
                          /\ failure(unit.outcome[1])
                 /\ \A i \in 1..n :
                       (unit.attempts[i].error # None
                        /\ ~transport(unit.attempts[i].error[1]))
                       => /\ i = n
                          /\ unit.gets = n
                          /\ unit.pc = "done"
                          /\ failure(unit.outcome[1])
                 /\ unit.checked # None
                       => (unit.attempts[n].value[1].body_bytes > 10485760
                             <=> failure(unit.checked[1])))
    /\ [][(unit.kind = "extract" /\ unit.pc = "done")
             => (unit'.pc = "done" /\ unit'.gets = unit.gets)]_vars

C31_Witness ==
    /\ unit.kind = "extract"
    /\ unit.gets = 2
    /\ unit.slept = <<1>>
    /\ unit.checked # None
    /\ unit.checked[1].error # None
    /\ unit.checked[1].error[1].type = "ProcessingError"


C33_NoOpDispatchReturnsRunId ==
    \A r \in Requests :
        LET q == requests[r]
        IN  (q.pc = "done" /\ q.response.code = 202 /\ q.dispatches = 1)
            => /\ q.task_id.kind = "task"
               /\ q.task_id.n \in 1..Len(tasks)
               /\ tasks[q.task_id.n].document_id = q.response.document_uuid


C40_TerminalRunStatusIsAbsorbing ==
    [][(/\ unit.kind = "run"
        /\ unit.task # None
        /\ unit.task[1].status \in {"completed", "failed", "cancelled"})
       => unit'.task = unit.task]_vars


C36_LockPointsToRunInFlight ==
    \A j \in Jobs :
        (\/ jobs[j].status = "queued"
         \/ /\ jobs[j].status = "started"
            /\ jobs[j].pc \in {"entry", "status", "progress", "save_summary",
                               "success_status", "success_progress",
                               "fail_error", "fail_status", "fail_unlock"})
           => doc_job[jobs[j].document_id] = j


\* C37: a resource whose durable status is FAILED has a non-null last_error,
\* also when a re-trigger of the resource interleaves with the failure path
\* of its executor.
C37_FailedHasLastError ==
    \A d \in 1..Len(docs) : docs[d].status = FAILED => docs[d].last_error # None


\* ------------------------------------------------------ mirror failures
\* str(e) of the redis.ConnectionError that redis_conn.setex raises
RedisError == "Error connecting to Redis"

\* tasks.py 396-399, 419-423, 446-455: update_document_progress(db, id,
\* checkpoint) commits, then update_document_progress_redis raises
\* (redis_progress.py 36-40 has no handler): the stage's work is not run and
\* the error reaches the executor's except block.
stage_progress_mirror_raises(j) ==
    LET d == jobs[j].document_id
    IN  /\ ~Delivering
        /\ jobs[j].pc = "progress"
        /\ docs' = [docs EXCEPT ![d].data_progress =
                                   DOCUMENT_STAGE_PROGRESS[jobs[j].stage]]
        /\ jobs' = [jobs EXCEPT ![j].pc = "fail_error",
                                ![j].error = Some(RedisError),
                                ![j].content = None]
        /\ UNCHANGED <<requests, calls, unit, queue, tasks, job_key, doc_job,
                       doc_progress>>

\* tasks.py 479-484: update_document_progress(db, document_id, 1.0) commits,
\* then update_document_progress_redis(document_id, SUCCESS) raises: the
\* error reaches the executor's except block.
success_progress_mirror_raises(j) ==
    LET d == jobs[j].document_id
    IN  /\ ~Delivering
        /\ jobs[j].pc = "success_progress"
        /\ docs' = [docs EXCEPT ![d].data_progress = 100]
        /\ jobs' = [jobs EXCEPT ![j].pc = "fail_error",
                                ![j].error = Some(RedisError)]
        /\ UNCHANGED <<requests, calls, unit, queue, tasks, job_key, doc_job,
                       doc_progress>>

\* tasks.py 498-506: update_document_status(db, document_id, FAILED) commits,
\* then update_document_progress_redis(document_id, FAILED, error_msg)
\* raises: the inner except block logs the error.
fail_status_mirror_raises(j) ==
    LET d == jobs[j].document_id
    IN  /\ ~Delivering
        /\ jobs[j].pc = "fail_status"
        /\ docs' = [docs EXCEPT ![d].status = FAILED]
        /\ jobs' = [jobs EXCEPT ![j].pc = "fail_unlock", ![j].outcome = FAILED,
                                ![j].written = Append(@, FAILED)]
        /\ UNCHANGED <<requests, calls, unit, queue, tasks, job_key, doc_job,
                       doc_progress>>

MirrorFaultNext ==
    \/ Next
    \/ \E j \in Jobs : stage_progress_mirror_raises(j)
    \/ \E j \in Jobs : success_progress_mirror_raises(j)
    \/ \E j \in Jobs : fail_status_mirror_raises(j)

\* The system with a Redis that can fail under the progress mirror.
MirrorFaultSpec == FaultInit /\ [][MirrorFaultNext]_vars

\* C38: a failure to write the progress mirror does not change the durable
\* outcome of a run: when the executor of a run whose fetch, parsing and
\* summarization all succeeded ends, the last status the run has committed to
\* its resource is SUCCESS, whichever mirror writes raised.
C38_MirrorFailureKeepsDurableOutcome ==
    [][\A j \in Jobs :
          (/\ Running(jobs[j])
           /\ ~Running(jobs'[j])
           /\ jobs[j].summary # None)
             => /\ jobs[j].written # <<>>
                /\ jobs[j].written[Len(jobs[j].written)] = SUCCESS]_vars


\* ------------------------------------------------- a job without its row
\* RQ calls summarize_document_worker with the id the job was enqueued with.
\* Here a job is queued for an id that has no row (DocumentCRUD.delete_document,
\* crud.py 196-203, removes rows; RQ keeps the job).
OrphanInit ==
    /\ docs = <<>>
    /\ requests = [r \in Requests |-> IdleRequest]
    /\ calls = MaxCalls - FaultCalls
    /\ \E d \in DocIds :
          /\ jobs = <<NewJob(d)>>
          /\ tasks = <<NewTask(d)>>
          /\ doc_job = [e \in DocIds |-> IF e = d THEN 1 ELSE 0]
    /\ queue = <<1>>
    /\ job_key = <<1>>
    /\ doc_progress = [d \in DocIds |-> None]
    /\ unit = NoUnit

\* The system with a job whose resource may not exist when it runs.
OrphanSpec == OrphanInit /\ [][Next]_vars

\* C39: when summarize_document raises out of the executor, for example
\* because the resource does not exist, summarize_document_worker leaves a
\* mirror record of the resource with stage FAILED and the error message
\* before it re-raises.
C39_WorkerLeavesFailedMirrorRecord ==
    [][\A j \in Jobs :
          (jobs[j].pc = "worker_except" /\ jobs'[j].pc = "exit")
             => doc_progress'[jobs[j].document_id]
                   = Some(ProgressData(FAILED, jobs[j].error))]_vars

====
